---- MODULE Spec2Model ----
(***************************************************************************)
(* Model of the insight/nudge engine of Spend-Smart                         *)
(* (server/src/services/aiService.js, class AIService).                     *)
(*                                                                          *)
(* Time is counted in ticks; a day has TicksPerDay ticks, so an instant is  *)
(* an integer and endOf('day') is the last tick of a day.  Amounts are      *)
(* integers.  Every threshold test of the code (percentage >= 80,           *)
(* ratio > 1.8, ...) is a comparison of a quotient of sums with a decimal   *)
(* literal; it is evaluated here by cross-multiplication, which agrees with *)
(* the IEEE double arithmetic of the code for every input inside the        *)
(* bounds of this model.                                                    *)
(***************************************************************************)
EXTENDS Integers, Sequences, FiniteSets, Bags, TLC

----------------------------------------------------------------------------
(* Bounds of the model *)

MaxExpenses == 3
MaxClock == 1
TicksPerDay == 2
DaysPerMonth == 30
MaxBoundaryExpenses == 2
MaxSpikeExpenses == 3
MaxLogins == 4
StreakHorizonDays == 4
MaxApiExpenses == 2

----------------------------------------------------------------------------
(* Program constants *)

DaysPerWeek == 7
DefaultWindowDays == 30
NudgeLimit == 5
WeekendRatioTenths == 18
HighRatioTenths == 25
OverageThreshold == 100
WarningThreshold == 80
TrendThreshold == 15
TrendDownThreshold == 10
LabelThreshold == 5
MilestoneStreak == 7
SmallPurchaseLimit == 200
SmallPurchaseCount == 10
SpikeMinCount == 3
SpikeFactor == 5
DefaultRank == 3

NUDGE_TYPES ==
  [ WEEKEND_SPENDING |-> "weekend_spending",
    BUDGET_OVERAGE |-> "budget_overage",
    SPENDING_TREND |-> "spending_trend",
    STREAK_CELEBRATION |-> "streak_celebration",
    CATEGORY_PATTERN |-> "category_pattern",
    SAVINGS_MILESTONE |-> "savings_milestone" ]

NUDGE_PRIORITY == [ HIGH |-> "high", MEDIUM |-> "medium", LOW |-> "low" ]

----------------------------------------------------------------------------
(* Values the store and the caller's inputs are drawn from *)

Cats == {1, 2}
Amounts == {3, 7, 8}
Budgets == {0, 10}

\* Day 0 is a Sunday; the days used lie in one month, well after day 0.
SundayDay == 11 * DaysPerWeek
SaturdayDay == SundayDay - 1
MondayDay == SundayDay + 1

Null == -1

----------------------------------------------------------------------------
(* moment(): calendar arithmetic on instants *)

Day == TicksPerDay

DayIndex(t) == t \div TicksPerDay

\* moment(t).startOf('day') and .endOf('day')
StartOfDay(t) == DayIndex(t) * TicksPerDay
EndOfDay(t) == StartOfDay(t) + TicksPerDay - 1

\* moment(t).startOf('month') and .endOf('month')
StartOfMonth(t) == (DayIndex(t) \div DaysPerMonth) * DaysPerMonth * TicksPerDay
EndOfMonth(t) == StartOfMonth(t) + DaysPerMonth * TicksPerDay - 1

\* moment(t).day(): 0 is Sunday, 6 is Saturday
DayOfWeek(t) == DayIndex(t) % DaysPerWeek

\* moment(b).diff(moment(a), 'days'): whole days, truncated toward zero
DiffDays(b, a) == IF b >= a THEN (b - a) \div TicksPerDay
                  ELSE 0 - ((a - b) \div TicksPerDay)

Abs(x) == IF x < 0 THEN 0 - x ELSE x

\* Math.round(n / d) for a quotient of either sign, d > 0: floor(n / d + 0.5);
\* toFixed on a quotient n / d >= 0: the nearest integer, halves upward.
RoundDiv(n, d) == (2 * n + d) \div (2 * d)

\* the same for a quotient of either sign (toFixed rounds the magnitude)
RoundDivSigned(n, d) == IF n >= 0 THEN RoundDiv(n, d) ELSE 0 - RoundDiv(0 - n, d)

----------------------------------------------------------------------------
(* The store: Expense, Category and User collections, read-only here *)

VARIABLES
  expenses,     \* Expense documents in natural order: [date, categoryId, amount]
  categories,   \* Category documents: _id -> [monthlyBudget, isActive]
  user,         \* the User document: [streak |-> [current, longest, lastActiveDate]]
  now           \* the current instant (moment(), new Date())

VARIABLES
  pc,           \* position of the generateInsights call
  startDate,    \* its resolved window
  endDate,
  loaded,       \* [expenses, categories, user] as returned by the three reads
  generated,    \* the list returned by generateAllNudges
  totals,       \* [current, previous] as read by analyzeSpendingTrendsForNudge
  result,       \* the value the call returned, or NoResult
  error,        \* the error the call threw, or NoError
  reads,        \* how many times each of the three initial reads was issued
  failedReads   \* the store reads of this call that failed

storeVars == <<expenses, categories, user, now>>
vars == <<expenses, categories, user, now, pc, startDate, endDate, loaded,
          generated, totals, result, error, reads, failedReads>>

NoResult == [nudges |-> <<>>, returned |-> FALSE]
NoError == "none"
NoLoad == [expenses |-> <<>>, categories |-> <<>>, user |-> [streak |-> [current |-> 0, longest |-> 0, lastActiveDate |-> Null]]]
NoTotals == [current |-> Null, previous |-> Null]

InitialReads == {"getUserExpenses", "getUserCategories", "getUserInfo"}

----------------------------------------------------------------------------
(* Sequence helpers *)

RECURSIVE SumAmount(_)
SumAmount(s) == IF s = <<>> THEN 0 ELSE Head(s).amount + SumAmount(Tail(s))

\* the last n elements kept instead of the first
Take_Last(s, n) == SubSeq(s, IF Len(s) < n THEN 1 ELSE Len(s) - n + 1, Len(s))

Take(s, n) == SubSeq(s, 1, IF Len(s) < n THEN Len(s) ELSE n)

InRange(e, from, to) == e.date >= from /\ e.date <= to

----------------------------------------------------------------------------
(* Store reads (aiService.js "Helper methods") *)

\* populate('categoryId', 'name color'): the reference replaced by the
\* Category document it names, reduced to the selected fields and its _id
populate(e) == [e EXCEPT !.categoryId = [_id |-> @]]

\* Expense.find({userId, isActive, date: {$gte, $lte}}).populate('categoryId', ...)
getUserExpenses(from, to) ==
  LET found == SelectSeq(expenses, LAMBDA e : InRange(e, from, to))
  IN [i \in 1..Len(found) |-> populate(found[i])]

RECURSIVE ActiveCategories(_)
ActiveCategories(ids) ==
  IF ids = {} THEN <<>>
  ELSE LET id == CHOOSE i \in ids : \A j \in ids : i <= j
       IN (IF categories[id].isActive
           THEN <<[_id |-> id, monthlyBudget |-> categories[id].monthlyBudget]>>
           ELSE <<>>) \o ActiveCategories(ids \ {id})

\* Category.find({userId, isActive: true})
getUserCategories == ActiveCategories(DOMAIN categories)

\* User.findById(userId)
getUserInfo == user

\* Expense.aggregate $match date range, $group $sum amount; result[0]?.total || 0
getTotalSpending(from, to) ==
  SumAmount(SelectSeq(expenses, LAMBDA e : InRange(e, from, to)))

getCategorySpending(categoryId, from, to) ==
  SumAmount(SelectSeq(expenses,
                      LAMBDA e : e.categoryId = categoryId /\ InRange(e, from, to)))

\* the spend of the analysis window taken instead
getCategorySpendingThisMonth_Window(categoryId) ==
  getCategorySpending(categoryId, startDate, endDate)

getCategorySpendingThisMonth(categoryId) ==
  getCategorySpending(categoryId, StartOfMonth(now), EndOfMonth(now))

----------------------------------------------------------------------------
(* Threshold tests on quotients, by cross-multiplication (denominators > 0) *)

\* the comparison made strict
PercentAbove(spent, budget, k) == 100 * spent > k * budget

\* the comparison made on the percentage rounded to one decimal
PercentAtLeast_Rounded(spent, budget, k) == RoundDiv(1000 * spent, budget) >= 10 * k

\* (spent / budget) * 100 >= k
PercentAtLeast(spent, budget, k) == 100 * spent >= k * budget

\* the change taken relative to the current total
ChangeAbove_OfCurrent(current, previous, k) == 100 * (current - previous) > k * current

\* the outer rejection at the threshold of the decrease branch
ChangeAbsBelow_Ten(current, previous, k) ==
  100 * Abs(current - previous) < TrendDownThreshold * previous

\* the increase branch taken at the threshold itself
ChangeAbove_OrEqual(current, previous, k) == 100 * (current - previous) >= k * previous

\* ((current - previous) / previous) * 100, compared with k
ChangeAbove(current, previous, k) == 100 * (current - previous) > k * previous
\* the decrease recognised at the threshold itself
ChangeBelow_OrEqual(current, previous, k) == 100 * (current - previous) <= k * previous

ChangeBelow(current, previous, k) == 100 * (current - previous) < k * previous
ChangeAbsBelow(current, previous, k) == 100 * Abs(current - previous) < k * previous

\* the sums compared instead of the means
RatioAbove_Sums(weekendSum, weekendCount, weekdaySum, weekdayCount, tenths) ==
  10 * weekendSum > tenths * weekdaySum

\* (weekendSum / weekendCount) / (weekdaySum / weekdayCount) > tenths / 10
RatioAbove(weekendSum, weekendCount, weekdaySum, weekdayCount, tenths) ==
  10 * weekendSum * weekdayCount > tenths * weekdaySum * weekendCount

----------------------------------------------------------------------------
(* Rule evaluators.  Each returns the nudges it builds, in construction     *)
(* order, without the Date.now() suffix of the id, which Stamp appends.     *)

\* message holds the numbers the message text interpolates
Nudge(id, type, message, priority, actionable, metadata) ==
  [id |-> id, type |-> type, message |-> message, priority |-> priority,
   actionable |-> actionable, metadata |-> metadata]

isWeekend(e) == DayOfWeek(e.date) = 0 \/ DayOfWeek(e.date) = 6
isWeekday(e) == DayOfWeek(e.date) >= 1 /\ DayOfWeek(e.date) <= 5

detectWeekendSpending(exps) ==
  LET weekendExpenses == SelectSeq(exps, isWeekend)
      weekdayExpenses == SelectSeq(exps, isWeekday)
      ws == SumAmount(weekendExpenses)
      wn == Len(weekendExpenses)
      ds == SumAmount(weekdayExpenses)
      dn == Len(weekdayExpenses)
  IN IF wn = 0 \/ dn = 0 THEN <<>>
     ELSE IF RatioAbove(ws, wn, ds, dn, WeekendRatioTenths)
     THEN << Nudge(<<"weekend_spending">>, NUDGE_TYPES.WEEKEND_SPENDING,
                   [ratio |-> RoundDiv(10 * ws * dn, ds * wn),
                    limit |-> RoundDiv(ws, wn)],
                   IF RatioAbove(ws, wn, ds, dn, HighRatioTenths)
                   THEN NUDGE_PRIORITY.HIGH ELSE NUDGE_PRIORITY.MEDIUM,
                   TRUE,
                   [ratio |-> RoundDiv(100 * ws * dn, ds * wn),
                    weekendAvg |-> RoundDiv(100 * ws, wn),
                    weekdayAvg |-> RoundDiv(100 * ds, dn)]) >>
     ELSE <<>>

\* !category.monthlyBudget || category.monthlyBudget <= 0
Untracked(category) == category.monthlyBudget = Null \/ category.monthlyBudget <= 0

\* the body of the loop of detectBudgetOverspend for one category
BudgetNudge(category, spentThisMonth) ==
  IF PercentAtLeast(spentThisMonth, category.monthlyBudget, OverageThreshold)
  THEN << Nudge(<<"budget_overage", category._id>>, NUDGE_TYPES.BUDGET_OVERAGE,
                [exceededBy |-> RoundDiv(100 * spentThisMonth
                                           - 100 * category.monthlyBudget,
                                         category.monthlyBudget)],
                NUDGE_PRIORITY.HIGH, TRUE,
                [categoryId |-> category._id,
                 budget |-> category.monthlyBudget,
                 spent |-> spentThisMonth,
                 percentage |-> RoundDiv(1000 * spentThisMonth, category.monthlyBudget)]) >>
  ELSE IF PercentAtLeast(spentThisMonth, category.monthlyBudget, WarningThreshold)
  THEN << Nudge(<<"budget_warning", category._id>>, NUDGE_TYPES.BUDGET_OVERAGE,
                [remaining |-> category.monthlyBudget - spentThisMonth,
                 remainingDays |-> DiffDays(EndOfMonth(now), now)],
                NUDGE_PRIORITY.MEDIUM, TRUE,
                [categoryId |-> category._id,
                 budget |-> category.monthlyBudget,
                 spent |-> spentThisMonth,
                 percentage |-> RoundDiv(1000 * spentThisMonth, category.monthlyBudget),
                 remainingDays |-> DiffDays(EndOfMonth(now), now)]) >>
  ELSE <<>>

RECURSIVE detectBudgetOverspend(_)
detectBudgetOverspend(cats) ==
  IF cats = <<>> THEN <<>>
  ELSE (IF Untracked(Head(cats)) THEN <<>>
        ELSE BudgetNudge(Head(cats), getCategorySpendingThisMonth(Head(cats)._id)))
       \o detectBudgetOverspend(Tail(cats))

\* the previous period of analyzeSpendingTrendsForNudge and analyzeSpendingTrends
previousPeriodStart(from, to) == from - DiffDays(to, from) * Day
previousPeriodEnd(from) == from - Day

\* analyzeSpendingTrendsForNudge after its two reads
TrendNudge(currentPeriodTotal, previousPeriodTotal) ==
  IF previousPeriodTotal = 0 THEN <<>>
  ELSE IF ChangeAbsBelow(currentPeriodTotal, previousPeriodTotal, TrendThreshold)
  THEN <<>>
  ELSE IF ChangeAbove(currentPeriodTotal, previousPeriodTotal, TrendThreshold)
  THEN << Nudge(<<"spending_increase">>, NUDGE_TYPES.SPENDING_TREND,
                [increasedBy |-> RoundDiv(100 * (currentPeriodTotal - previousPeriodTotal),
                                          previousPeriodTotal)],
                NUDGE_PRIORITY.MEDIUM, TRUE,
                [currentPeriodTotal |-> currentPeriodTotal,
                 previousPeriodTotal |-> previousPeriodTotal,
                 changePercentage |->
                   RoundDivSigned(1000 * (currentPeriodTotal - previousPeriodTotal),
                                  previousPeriodTotal)]) >>
  ELSE IF ChangeBelow(currentPeriodTotal, previousPeriodTotal, 0 - TrendDownThreshold)
  THEN << Nudge(<<"spending_decrease">>, NUDGE_TYPES.SPENDING_TREND,
                [reducedBy |-> Abs(RoundDiv(100 * (currentPeriodTotal - previousPeriodTotal),
                                            previousPeriodTotal))],
                NUDGE_PRIORITY.LOW, FALSE,
                [currentPeriodTotal |-> currentPeriodTotal,
                 previousPeriodTotal |-> previousPeriodTotal,
                 changePercentage |->
                   RoundDivSigned(1000 * (currentPeriodTotal - previousPeriodTotal),
                                  previousPeriodTotal)]) >>
  ELSE <<>>

\* the personal best taken as strictly above the longest streak
generateMotivationalNudges_StrictRecord(u) ==
  LET current == u.streak.current
      longest == u.streak.longest
  IN (IF current = MilestoneStreak
      THEN << Nudge(<<"streak_7">>, NUDGE_TYPES.STREAK_CELEBRATION, <<>>,
                    NUDGE_PRIORITY.LOW, FALSE, [streakDays |-> current]) >>
      ELSE <<>>)
     \o
     (IF current > longest /\ current > 0
      THEN << Nudge(<<"personal_best">>, NUDGE_TYPES.STREAK_CELEBRATION,
                    [days |-> current],
                    NUDGE_PRIORITY.LOW, FALSE,
                    [streakDays |-> current, personalBest |-> TRUE]) >>
      ELSE <<>>)

generateMotivationalNudges(u) ==
  LET current == u.streak.current
      longest == u.streak.longest
  IN (IF current = MilestoneStreak
      THEN << Nudge(<<"streak_7">>, NUDGE_TYPES.STREAK_CELEBRATION, <<>>,
                    NUDGE_PRIORITY.LOW, FALSE, [streakDays |-> current]) >>
      ELSE <<>>)
     \o
     (IF current = longest /\ current > longest - 1 /\ current > 0
      THEN << Nudge(<<"personal_best">>, NUDGE_TYPES.STREAK_CELEBRATION,
                    [days |-> current],
                    NUDGE_PRIORITY.LOW, FALSE,
                    [streakDays |-> current, personalBest |-> TRUE]) >>
      ELSE <<>>)

\* ObjectId.prototype.toString(): the hexadecimal string of the id
ObjectIdToString(id) == <<"ObjectId", id>>

\* Document.prototype.toString() of a populated Category document: the text
\* of the whole document (its inspect() output), which is no id string
DocumentToString(doc) == <<"Document", doc._id>>

\* keys of categoryExpenses, in order of first appearance
RECURSIVE CategoryKeys(_, _)
CategoryKeys(exps, seen) ==
  IF exps = <<>> THEN <<>>
  ELSE LET categoryId == DocumentToString(Head(exps).categoryId)
       IN IF categoryId \in seen THEN CategoryKeys(Tail(exps), seen)
          ELSE <<categoryId>> \o CategoryKeys(Tail(exps), seen \cup {categoryId})

\* amounts sorted by (a, b) => b - a
RECURSIVE SortDescending(_)
SortDescending(s) ==
  IF s = <<>> THEN <<>>
  ELSE LET i == CHOOSE k \in 1..Len(s) :
                  /\ \A j \in 1..Len(s) : s[k] >= s[j]
                  /\ \A j \in 1..(k - 1) : s[j] < s[k]
       IN <<s[i]>> \o SortDescending(SubSeq(s, 1, i - 1) \o SubSeq(s, i + 1, Len(s)))

\* the body of the loop of detectCategoryPatterns for one key
PatternNudges(categoryId, categoryExpenseList, cats) ==
  IF \A i \in 1..Len(cats) : ObjectIdToString(cats[i]._id) # categoryId THEN <<>>
  ELSE
    LET smallPurchases == SelectSeq(categoryExpenseList,
                                    LAMBDA e : e.amount < SmallPurchaseLimit)
        amounts == SortDescending([i \in 1..Len(categoryExpenseList) |->
                                     categoryExpenseList[i].amount])
        median == amounts[(Len(amounts) \div 2) + 1]
        largest == amounts[1]
    IN (IF Len(smallPurchases) >= SmallPurchaseCount
        THEN << Nudge(<<"small_purchases", categoryId>>, NUDGE_TYPES.CATEGORY_PATTERN,
                      [count |-> Len(smallPurchases),
                       total |-> SumAmount(smallPurchases)],
                      NUDGE_PRIORITY.MEDIUM, TRUE,
                      [categoryId |-> categoryId,
                       count |-> Len(smallPurchases),
                       totalAmount |-> SumAmount(smallPurchases)]) >>
        ELSE <<>>)
       \o
       (IF Len(amounts) >= SpikeMinCount /\ largest > median * SpikeFactor
        THEN << Nudge(<<"unusual_spike", categoryId>>, NUDGE_TYPES.CATEGORY_PATTERN,
                      <<>>,
                      NUDGE_PRIORITY.MEDIUM, TRUE,
                      [categoryId |-> categoryId,
                       largestExpense |-> largest,
                       medianExpense |-> median]) >>
        ELSE <<>>)

RECURSIVE PatternLoop(_, _, _)
PatternLoop(keys, exps, cats) ==
  IF keys = <<>> THEN <<>>
  ELSE PatternNudges(Head(keys),
                     SelectSeq(exps, LAMBDA e :
                                       DocumentToString(e.categoryId) = Head(keys)),
                     cats)
       \o PatternLoop(Tail(keys), exps, cats)

detectCategoryPatterns(exps, cats) == PatternLoop(CategoryKeys(exps, {}), exps, cats)

detectSavingsMilestones == <<>>

----------------------------------------------------------------------------
(* Prioritizer *)

\* parseInt(id.split('_').pop()): the Date.now() suffix of an id
IdTime(id) == id[Len(id)]

\* priorityOrder[priority] || 3
priorityOrder(priority) ==
  IF priority = NUDGE_PRIORITY.HIGH THEN 1
  ELSE IF priority = NUDGE_PRIORITY.MEDIUM THEN 2
  ELSE IF priority = NUDGE_PRIORITY.LOW THEN 3
  ELSE DefaultRank

\* a comparator that looks at the timestamps alone
Compare_ByTimeOnly(a, b) == IdTime(b.id) - IdTime(a.id)

\* the comparator handed to Array.prototype.sort
Compare(a, b) ==
  IF priorityOrder(a.priority) # priorityOrder(b.priority)
  THEN priorityOrder(a.priority) - priorityOrder(b.priority)
  ELSE IdTime(b.id) - IdTime(a.id)

\* x placed behind every element of the sorted list s that does not follow it
InsertSorted(x, s) ==
  LET later == {i \in 1..Len(s) : Compare(s[i], x) > 0}
      at == IF later = {} THEN Len(s) + 1
            ELSE CHOOSE i \in later : \A j \in later : i <= j
  IN SubSeq(s, 1, at - 1) \o <<x>> \o SubSeq(s, at, Len(s))

RECURSIVE SortFrom(_, _)
SortFrom(rest, sorted) ==
  IF rest = <<>> THEN sorted
  ELSE SortFrom(Tail(rest), InsertSorted(Head(rest), sorted))

\* nudges.sort(comparator): Array.prototype.sort is stable
prioritizeNudges(nudges) == SortFrom(nudges, <<>>)

----------------------------------------------------------------------------
(* Insight aggregator *)

\* analyzeSpendingTrends labelling only changes beyond 20%
SpendingPatterns_WideBand(currentPeriodTotal, previousPeriodTotal) ==
  LET trend == IF previousPeriodTotal > 0
               THEN IF ChangeAbove(currentPeriodTotal, previousPeriodTotal, 20)
                    THEN "up"
                    ELSE IF ChangeBelow(currentPeriodTotal, previousPeriodTotal, 0 - 20)
                    THEN "down"
                    ELSE "stable"
               ELSE "stable"
  IN [isIncreasing |-> trend = "up",
      trend |-> trend,
      changePercentage |->
        IF previousPeriodTotal > 0
        THEN RoundDivSigned(1000 * (currentPeriodTotal - previousPeriodTotal),
                            previousPeriodTotal)
        ELSE 0,
      currentPeriod |-> currentPeriodTotal,
      previousPeriod |-> previousPeriodTotal]

\* analyzeSpendingTrends after its two reads
SpendingPatterns(currentPeriodTotal, previousPeriodTotal) ==
  LET trend == IF previousPeriodTotal > 0
               THEN IF ChangeAbove(currentPeriodTotal, previousPeriodTotal, LabelThreshold)
                    THEN "up"
                    ELSE IF ChangeBelow(currentPeriodTotal, previousPeriodTotal,
                                        0 - LabelThreshold)
                    THEN "down"
                    ELSE "stable"
               ELSE "stable"
  IN [isIncreasing |-> trend = "up",
      trend |-> trend,
      changePercentage |->
        IF previousPeriodTotal > 0
        THEN RoundDivSigned(1000 * (currentPeriodTotal - previousPeriodTotal),
                            previousPeriodTotal)
        ELSE 0,
      currentPeriod |-> currentPeriodTotal,
      previousPeriod |-> previousPeriodTotal]

\* the body of the loop of analyzeCategorySpending for one category
CategoryAlert(category, spent) ==
  IF PercentAtLeast(spent, category.monthlyBudget, OverageThreshold)
  THEN << [categoryId |-> category._id, spent |-> spent,
           budget |-> category.monthlyBudget,
           percentage |-> RoundDiv(1000 * spent, category.monthlyBudget),
           overBudget |-> TRUE] >>
  ELSE IF PercentAtLeast(spent, category.monthlyBudget, WarningThreshold)
  THEN << [categoryId |-> category._id, spent |-> spent,
           budget |-> category.monthlyBudget,
           percentage |-> RoundDiv(1000 * spent, category.monthlyBudget),
           overBudget |-> FALSE] >>
  ELSE <<>>

\* the alerts computed on the spend of the calendar month
RECURSIVE analyzeCategorySpending_ThisMonth(_, _, _)
analyzeCategorySpending_ThisMonth(cats, from, to) ==
  IF cats = <<>> THEN <<>>
  ELSE (IF Untracked(Head(cats)) THEN <<>>
        ELSE CategoryAlert(Head(cats), getCategorySpendingThisMonth(Head(cats)._id)))
       \o analyzeCategorySpending_ThisMonth(Tail(cats), from, to)

RECURSIVE analyzeCategorySpending(_, _, _)
analyzeCategorySpending(cats, from, to) ==
  IF cats = <<>> THEN <<>>
  ELSE (IF Untracked(Head(cats)) THEN <<>>
        ELSE CategoryAlert(Head(cats), getCategorySpending(Head(cats)._id, from, to)))
       \o analyzeCategorySpending(Tail(cats), from, to)

----------------------------------------------------------------------------
(* generateAllNudges *)

Tracked(cats) == SelectSeq(cats, LAMBDA c : ~Untracked(c))

\* ids completed with the Date.now() read when each nudge is built
Stamp(drafts, stamps) ==
  [i \in 1..Len(drafts) |-> [drafts[i] EXCEPT !.id = @ \o <<stamps[i]>>]]

\* the values successive Date.now() calls of one run can return
Clocks(n) == {f \in [1..n -> 0..MaxClock] : \A i \in 1..(n - 1) : f[i] <= f[i + 1]}

\* the nudges of a run of generateAllNudges in which every read succeeds
AllNudges(exps, cats, u, from, to) ==
  detectWeekendSpending(exps)
  \o detectBudgetOverspend(cats)
  \o TrendNudge(getTotalSpending(from, to),
                getTotalSpending(previousPeriodStart(from, to), previousPeriodEnd(from)))
  \o generateMotivationalNudges(u)
  \o detectCategoryPatterns(exps, cats)
  \o detectSavingsMilestones

Bump(r, name, n) == [r EXCEPT ![name] = @ + n]

----------------------------------------------------------------------------
(* Initial states: a store the program can hold, no call in progress *)

ExpenseDates == { SaturdayDay * TicksPerDay,
                  SundayDay * TicksPerDay + 1,
                  MondayDay * TicksPerDay + 1 }

ExpenseDocs == [date : ExpenseDates, categoryId : Cats, amount : Amounts]

\* insertion order is the order of the dates
ExpenseBefore(a, b) ==
  \/ a.date < b.date
  \/ a.date = b.date /\ a.categoryId < b.categoryId
  \/ a.date = b.date /\ a.categoryId = b.categoryId /\ a.amount < b.amount

\* the collections of at most n of the documents docs
RECURSIVE StoreLists(_, _)
StoreLists(docs, n) ==
  IF n = 0 THEN {<<>>}
  ELSE LET shorter == StoreLists(docs, n - 1)
       IN shorter \cup
          {Append(l, e) : <<l, e>> \in
             {p \in shorter \X docs :
                /\ Len(p[1]) = n - 1
                /\ (p[1] = <<>> \/ ExpenseBefore(p[1][Len(p[1])], p[2]))}}

ExpenseLists(n) == StoreLists(ExpenseDocs, n)

\* category 1 has a budget, as the default categories have; category 2 may have none
CategoryTables ==
  {t \in [Cats -> [monthlyBudget : Budgets, isActive : {TRUE}]] :
     ~(t[1].monthlyBudget <= 0)}

StreakSnapshots ==
  { <<0, 0>>, <<3, 3>>, <<3, 10>>, <<MilestoneStreak, MilestoneStreak>>,
    <<MilestoneStreak, 10>> }

\* the (startDate, endDate) arguments callers pass
CallerWindows ==
  { <<Null, Null>>,
    <<SundayDay * TicksPerDay, MondayDay * TicksPerDay + TicksPerDay - 1>> }

NoReads == [r \in InitialReads |-> 0]

Idle ==
  /\ pc = "idle"
  /\ startDate = Null
  /\ endDate = Null
  /\ loaded = NoLoad
  /\ generated = <<>>
  /\ totals = NoTotals
  /\ result = NoResult
  /\ error = NoError
  /\ reads = NoReads
  /\ failedReads = {}

Init ==
  /\ expenses \in ExpenseLists(MaxExpenses)
  /\ categories \in CategoryTables
  /\ now = MondayDay * TicksPerDay + 1
  /\ \E s \in StreakSnapshots :
       user = [streak |-> [current |-> s[1], longest |-> s[2], lastActiveDate |-> now]]
  /\ Idle

----------------------------------------------------------------------------
(* Stores on the boundaries of the rules: one category with a budget of     *)
(* 50000 and spends a few units around it (the ratios of a budget of 5000   *)
(* with spends of 4999.90, 5000.10 and 5003), period totals exactly 5% and  *)
(* 15% around a previous total, and categories of three transactions one of *)
(* which is more than five times the others.                                *)

BoundaryBudget == 10 * 5000

BoundaryAmounts ==
  { 17000, 19000, 20000, 21000, 23000, 49999, 50001, 50030 }

SpikeAmounts == {1, 11}

BoundaryDocs == [date : ExpenseDates, categoryId : {1}, amount : BoundaryAmounts]
SpikeDocs == [date : ExpenseDates, categoryId : Cats, amount : SpikeAmounts]

\* a category of many purchases below 200, three of them far above the rest
FrequentAmounts == {1, 2, 3, 16}

FrequentDocs == [date : ExpenseDates, categoryId : {1}, amount : FrequentAmounts]

\* the documents docs in insertion order
RECURSIVE SortedStore(_)
SortedStore(docs) ==
  IF docs = {} THEN <<>>
  ELSE LET first == CHOOSE e \in docs : \A o \in docs \ {e} : ExpenseBefore(e, o)
       IN <<first>> \o SortedStore(docs \ {first})

\* stores of one purchase short of ten, of ten, and of twelve
FrequentLists ==
  {Take(SortedStore(FrequentDocs), n) :
     n \in {SmallPurchaseCount - 1, SmallPurchaseCount, Cardinality(FrequentDocs)}}

\* purchases on the day before a window that starts on Sunday
GapDates == { SaturdayDay * TicksPerDay,
              SaturdayDay * TicksPerDay + 1,
              SundayDay * TicksPerDay + 1 }

GapDocs == [date : GapDates, categoryId : {1}, amount : {20000}]

BoundaryLists ==
  StoreLists(BoundaryDocs, MaxBoundaryExpenses)
    \cup StoreLists(GapDocs, MaxBoundaryExpenses)
    \cup {l \in StoreLists(SpikeDocs, MaxSpikeExpenses) : Len(l) >= SpikeMinCount}
    \cup FrequentLists

\* the instants of a call: Monday noon, and the first instant of the last day
\* of the same month
BoundaryInstants ==
  { MondayDay * TicksPerDay + 1,
    StartOfDay(EndOfMonth(MondayDay * TicksPerDay)) }

BoundaryInit ==
  /\ expenses \in BoundaryLists
  /\ categories = [c \in Cats |->
                     [monthlyBudget |-> IF c = 1 THEN BoundaryBudget ELSE 0,
                      isActive |-> TRUE]]
  /\ now \in BoundaryInstants
  /\ \E s \in StreakSnapshots :
       user = [streak |-> [current |-> s[1], longest |-> s[2], lastActiveDate |-> now]]
  /\ Idle

----------------------------------------------------------------------------
(* generateInsights, one step per await *)

StartCall(from, to) ==
  /\ pc = "idle"
  /\ startDate' = IF from = Null
                  THEN StartOfDay(now - DefaultWindowDays * Day)
                  ELSE from
  /\ endDate' = IF to = Null THEN EndOfDay(now) ELSE to
  /\ pc' = "gather"
  /\ UNCHANGED <<loaded, generated, totals, result, error, reads, failedReads>>
  /\ UNCHANGED storeVars

\* the profile read also saving the user, which runs the streak hook
GatherOk_SavesUser ==
  /\ pc = "gather"
  /\ reads' = Bump(Bump(Bump(reads, "getUserExpenses", 1), "getUserCategories", 1),
                   "getUserInfo", 1)
  /\ user' = [user EXCEPT !.streak.current = @ + 1]
  /\ loaded' = [expenses |-> getUserExpenses(startDate, endDate),
                categories |-> getUserCategories,
                user |-> user']
  /\ pc' = "nudges"
  /\ UNCHANGED <<startDate, endDate, generated, totals, result, error, failedReads>>
  /\ UNCHANGED <<expenses, categories, now>>

\* Promise.all of the three reads, all fulfilled
GatherOk ==
  /\ pc = "gather"
  /\ reads' = Bump(Bump(Bump(reads, "getUserExpenses", 1), "getUserCategories", 1),
                   "getUserInfo", 1)
  /\ loaded' = [expenses |-> getUserExpenses(startDate, endDate),
                categories |-> getUserCategories,
                user |-> getUserInfo]
  /\ pc' = "nudges"
  /\ UNCHANGED <<startDate, endDate, generated, totals, result, error, failedReads>>
  /\ UNCHANGED storeVars

\* a failed read issued a second time, the call going on with its result
GatherFail_Retry ==
  /\ pc = "gather"
  /\ \E first \in InitialReads :
       /\ failedReads' = {first}
       /\ reads' = Bump(Bump(Bump(Bump(reads, "getUserExpenses", 1),
                                  "getUserCategories", 1), "getUserInfo", 1),
                        first, 1)
  /\ loaded' = [expenses |-> getUserExpenses(startDate, endDate),
                categories |-> getUserCategories,
                user |-> getUserInfo]
  /\ pc' = "nudges"
  /\ UNCHANGED <<startDate, endDate, generated, totals, result, error>>
  /\ UNCHANGED storeVars

\* Promise.all rejects with the first rejection; catch logs and rethrows
GatherFail ==
  /\ pc = "gather"
  /\ \E first \in InitialReads :
       /\ failedReads' = {first}
       /\ error' = first
  /\ reads' = Bump(Bump(Bump(reads, "getUserExpenses", 1), "getUserCategories", 1),
                   "getUserInfo", 1)
  /\ pc' = "failed"
  /\ UNCHANGED <<startDate, endDate, loaded, generated, totals, result>>
  /\ UNCHANGED storeVars

\* the evaluators after the weekend detector skipped when it emits nothing
GenerateAllNudges_StopsAtEmpty ==
  /\ pc = "nudges"
  /\ LET currentPeriodTotal == getTotalSpending(startDate, endDate)
         previousPeriodTotal ==
           getTotalSpending(previousPeriodStart(startDate, endDate),
                            previousPeriodEnd(startDate))
         weekend == detectWeekendSpending(loaded.expenses)
         drafts == IF weekend = <<>> THEN <<>>
                   ELSE weekend
                        \o detectBudgetOverspend(loaded.categories)
                        \o TrendNudge(currentPeriodTotal, previousPeriodTotal)
                        \o generateMotivationalNudges(loaded.user)
     IN /\ \E stamps \in Clocks(Len(drafts)) : generated' = Stamp(drafts, stamps)
        /\ totals' = [current |-> currentPeriodTotal, previous |-> previousPeriodTotal]
  /\ pc' = "insights"
  /\ UNCHANGED <<startDate, endDate, loaded, result, error, reads, failedReads>>
  /\ UNCHANGED storeVars

\* every evaluator returns
GenerateAllNudges ==
  /\ pc = "nudges"
  /\ LET from == startDate
         to == endDate
         currentPeriodTotal == getTotalSpending(from, to)
         previousPeriodTotal ==
           getTotalSpending(previousPeriodStart(from, to), previousPeriodEnd(from))
         drafts == detectWeekendSpending(loaded.expenses)
                   \o detectBudgetOverspend(loaded.categories)
                   \o TrendNudge(currentPeriodTotal, previousPeriodTotal)
                   \o generateMotivationalNudges(loaded.user)
                   \o detectCategoryPatterns(loaded.expenses, loaded.categories)
                   \o detectSavingsMilestones
     IN /\ \E stamps \in Clocks(Len(drafts)) : generated' = Stamp(drafts, stamps)
        /\ totals' = [current |-> currentPeriodTotal, previous |-> previousPeriodTotal]
  /\ pc' = "insights"
  /\ UNCHANGED <<startDate, endDate, loaded, result, error, reads, failedReads>>
  /\ UNCHANGED storeVars

\* a read of detectBudgetOverspend throws: the catch of generateAllNudges logs
\* the error and the nudges pushed so far are returned
BudgetReadFails ==
  /\ pc = "nudges"
  /\ LET drafts == detectWeekendSpending(loaded.expenses)
     IN \E stamps \in Clocks(Len(drafts)) : generated' = Stamp(drafts, stamps)
  /\ Tracked(loaded.categories) # <<>>
  /\ failedReads' = failedReads \cup {"getCategorySpendingThisMonth"}
  /\ totals' = NoTotals
  /\ pc' = "insights"
  /\ UNCHANGED <<startDate, endDate, loaded, result, error, reads>>
  /\ UNCHANGED storeVars

\* a read of analyzeSpendingTrendsForNudge throws: same catch
TrendReadFails ==
  /\ pc = "nudges"
  /\ LET drafts == detectWeekendSpending(loaded.expenses)
                   \o detectBudgetOverspend(loaded.categories)
     IN \E stamps \in Clocks(Len(drafts)) : generated' = Stamp(drafts, stamps)
  /\ failedReads' = failedReads \cup {"getTotalSpending"}
  /\ totals' = NoTotals
  /\ pc' = "insights"
  /\ UNCHANGED <<startDate, endDate, loaded, result, error, reads>>
  /\ UNCHANGED storeVars

\* the insights are computed, the nudges ranked and cut, the bundle returned
InsightsOk ==
  /\ pc = "insights"
  /\ LET currentPeriodTotal == getTotalSpending(startDate, endDate)
         previousPeriodTotal ==
           getTotalSpending(previousPeriodStart(startDate, endDate),
                            previousPeriodEnd(startDate))
     IN result' =
          [nudges |-> Take(prioritizeNudges(generated), NudgeLimit),
           insights |->
             [spendingPatterns |-> SpendingPatterns(currentPeriodTotal, previousPeriodTotal),
              categoryAlerts |->
                analyzeCategorySpending(loaded.categories, startDate, endDate),
              streakInfo |-> loaded.user.streak],
           period |-> [start |-> startDate, end |-> endDate],
           returned |-> TRUE]
  /\ pc' = "done"
  /\ UNCHANGED <<startDate, endDate, loaded, generated, totals, error, reads,
                 failedReads>>
  /\ UNCHANGED storeVars

\* a read of analyzeSpendingTrends or analyzeCategorySpending throws:
\* the catch of generateInsights logs and rethrows
InsightsFail ==
  /\ pc = "insights"
  /\ \/ /\ error' = "getTotalSpending"
        /\ failedReads' = failedReads \cup {"getTotalSpending"}
     \/ /\ Tracked(loaded.categories) # <<>>
        /\ error' = "getCategorySpending"
        /\ failedReads' = failedReads \cup {"getCategorySpending"}
  /\ pc' = "failed"
  /\ UNCHANGED <<startDate, endDate, loaded, generated, totals, result, reads>>
  /\ UNCHANGED storeVars

\* the caller has its answer; the next request may start
Return ==
  /\ pc \in {"done", "failed"}
  /\ pc' = "idle"
  /\ startDate' = Null
  /\ endDate' = Null
  /\ loaded' = NoLoad
  /\ generated' = <<>>
  /\ totals' = NoTotals
  /\ result' = NoResult
  /\ error' = NoError
  /\ reads' = NoReads
  /\ failedReads' = {}
  /\ UNCHANGED storeVars

Next ==
  \/ \E w \in CallerWindows : StartCall(w[1], w[2])
  \/ GatherOk
  \/ GatherFail
  \/ GenerateAllNudges
  \/ BudgetReadFails
  \/ TrendReadFails
  \/ InsightsOk
  \/ InsightsFail
  \/ Return

Spec == Init /\ [][Next]_vars

\* the same program over the stores on the boundaries
BoundarySpec == BoundaryInit /\ [][Next]_vars

----------------------------------------------------------------------------
(* The engagement record: registration, seeding and logins. Here the User   *)
(* document also carries lastLogin, loginCount and Mongoose's isNew.        *)

\* Math.floor((today - lastActiveDate) / (1000 * 60 * 60 * 24))
ElapsedDays(today, lastActiveDate) == (today - lastActiveDate) \div TicksPerDay

\* the hook with a streak that is reset along with its record
preSave_ResetsLongest(u, lastLoginModified, today) ==
  IF u.isNew \/ lastLoginModified
  THEN LET lastActiveDate == u.streak.lastActiveDate
           daysDiff == ElapsedDays(today, lastActiveDate)
           current == IF lastActiveDate = Null THEN 1
                      ELSE IF daysDiff = 1 THEN u.streak.current + 1
                      ELSE IF daysDiff > 1 THEN 1
                      ELSE u.streak.current
           longest == IF lastActiveDate = Null THEN 1
                      ELSE IF daysDiff > 1 THEN 1
                      ELSE IF daysDiff = 1 /\ current > u.streak.longest THEN current
                      ELSE u.streak.longest
       IN [u EXCEPT !.streak = [current |-> current, longest |-> longest,
                                lastActiveDate |-> today]]
  ELSE u

\* the hook without the update of the record
preSave_KeepsLongest(u, lastLoginModified, today) ==
  IF u.isNew \/ lastLoginModified
  THEN LET lastActiveDate == u.streak.lastActiveDate
           daysDiff == ElapsedDays(today, lastActiveDate)
           current == IF lastActiveDate = Null THEN 1
                      ELSE IF daysDiff = 1 THEN u.streak.current + 1
                      ELSE IF daysDiff > 1 THEN 1
                      ELSE u.streak.current
           longest == IF lastActiveDate = Null THEN 1 ELSE u.streak.longest
       IN [u EXCEPT !.streak = [current |-> current, longest |-> longest,
                                lastActiveDate |-> today]]
  ELSE u

\* userSchema.pre('save'): the streak hook, today being its new Date()
preSave(u, lastLoginModified, today) ==
  IF u.isNew \/ lastLoginModified
  THEN LET lastActiveDate == u.streak.lastActiveDate
           daysDiff == ElapsedDays(today, lastActiveDate)
           current == IF lastActiveDate = Null THEN 1
                      ELSE IF daysDiff = 1 THEN u.streak.current + 1
                      ELSE IF daysDiff > 1 THEN 1
                      ELSE u.streak.current
           longest == IF lastActiveDate = Null THEN 1
                      ELSE IF daysDiff = 1 /\ current > u.streak.longest THEN current
                      ELSE u.streak.longest
       IN [u EXCEPT !.streak = [current |-> current, longest |-> longest,
                                lastActiveDate |-> today]]
  ELSE u

\* document.save(): the hooks, then the write; the document is new no more
save(u, lastLoginModified, today) ==
  [preSave(u, lastLoginModified, today) EXCEPT !.isNew = FALSE]

\* isModified('lastLogin') compares the assigned date with the stored one
updateLoginInfo(u, today) ==
  save([u EXCEPT !.lastLogin = today, !.loginCount = @ + 1],
       u.lastLogin # today, today)

\* new User({name, email, passwordHash}): the defaults of the schema
RegisteredUser ==
  [streak |-> [current |-> 0, longest |-> 0, lastActiveDate |-> Null],
   lastLogin |-> Null, loginCount |-> 0, isNew |-> TRUE]

\* the streaks the seed script gives its two users
SeedStreaks == { <<15, 30>>, <<7, 14>> }

\* new User(userData) of the seed script, built at instant t
SeededUser(s, t) ==
  [streak |-> [current |-> s[1], longest |-> s[2], lastActiveDate |-> t],
   lastLogin |-> Null, loginCount |-> 0, isNew |-> TRUE]

StreakEpoch == SundayDay * TicksPerDay

engineVars == <<expenses, categories, pc, startDate, endDate, loaded, generated,
                totals, result, error, reads, failedReads>>

\* a document just constructed, in an empty store
StreakInit ==
  /\ expenses = <<>>
  /\ categories = [c \in Cats |-> [monthlyBudget |-> 0, isActive |-> TRUE]]
  /\ now \in {StreakEpoch, StreakEpoch + 1}
  /\ user \in {RegisteredUser} \cup {SeededUser(s, now) : s \in SeedStreaks}
  /\ Idle

\* register: save of the new document, then updateLoginInfo
Register ==
  /\ user.isNew
  /\ user.streak.lastActiveDate = Null
  /\ user' = updateLoginInfo(save(user, FALSE, now), now)
  /\ UNCHANGED <<now, engineVars>>

\* the seed script: save of the new document
SeedSave ==
  /\ user.isNew
  /\ user.streak.lastActiveDate # Null
  /\ user' = save(user, FALSE, now)
  /\ UNCHANGED <<now, engineVars>>

\* login: updateLoginInfo on the stored document
Login ==
  /\ ~user.isNew
  /\ user.loginCount < MaxLogins
  /\ user' = updateLoginInfo(user, now)
  /\ UNCHANGED <<now, engineVars>>

\* time passes
Tick ==
  /\ ~user.isNew
  /\ now < StreakEpoch + StreakHorizonDays * TicksPerDay
  /\ now' = now + 1
  /\ UNCHANGED <<user, engineVars>>

StreakNext ==
  \/ Register
  \/ SeedSave
  \/ Login
  \/ Tick

StreakSpec == StreakInit /\ [][StreakNext]_vars

----------------------------------------------------------------------------
(* The controllers getFinancialTips and getBudgetHealthScore *)

\* category.name
CategoryNames == [c \in Cats |-> IF c = 1 THEN <<"F", "o", "o", "d">>
                                 ELSE <<"B", "i", "l", "l", "s">>]

LowerChar(ch) ==
  CASE ch = "F" -> "f"
    [] ch = "B" -> "b"
    [] ch = "O" -> "o"
    [] OTHER -> ch

\* String.prototype.toLowerCase and String.prototype.includes
toLowerCase(str) == [i \in 1..Len(str) |-> LowerChar(str[i])]

includes(str, part) ==
  \E i \in 0..(Len(str) - Len(part)) : SubSeq(str, i + 1, i + Len(part)) = part

\* an absent text (undefined), falsy as the empty string is
NoText == <<>>

\* nudge.metadata.categoryName: the name of the category of a budget or
\* pattern nudge, undefined for the other nudges
categoryName(nudge) ==
  IF nudge.id[1] \in {"budget_overage", "budget_warning"}
  THEN CategoryNames[nudge.metadata.categoryId]
  ELSE IF nudge.id[1] \in {"small_purchases", "unusual_spike"}
  THEN CategoryNames[nudge.metadata.categoryId[2]]
  ELSE NoText

\* the values of req.query.category: absent, or a text
TipQueries == { NoText, <<"f", "O", "o">>, <<"s">> }

\* every returned nudge formatted, actionable or not
FormatTips_AllNudges(category) ==
  /\ pc = "done"
  /\ LET tips == IF category # NoText
                 THEN SelectSeq(result.nudges, LAMBDA nudge :
                        /\ categoryName(nudge) # NoText
                        /\ includes(toLowerCase(categoryName(nudge)),
                                    toLowerCase(category)))
                 ELSE result.nudges
         formattedTips ==
           [i \in 1..Len(tips) |->
              [id |-> tips[i].id, type |-> tips[i].type,
               description |-> tips[i].message, priority |-> tips[i].priority,
               category |-> IF categoryName(tips[i]) # NoText
                            THEN categoryName(tips[i]) ELSE <<"General">>,
               actionable |-> TRUE, metadata |-> tips[i].metadata]]
     IN result' =
          [tips |-> formattedTips,
           totalTips |-> Len(formattedTips),
           highPriorityCount |->
             Len(SelectSeq(formattedTips, LAMBDA tip : tip.priority = "high")),
           query |-> category,
           nudges |-> result.nudges,
           returned |-> TRUE]
  /\ pc' = "tips"
  /\ UNCHANGED <<startDate, endDate, loaded, generated, totals, error, reads,
                 failedReads>>
  /\ UNCHANGED storeVars

\* getFinancialTips, first step: the call of generateInsights over the last
\* 30 * 24 hours
StartTips ==
  /\ pc = "idle"
  /\ startDate' = now - DefaultWindowDays * Day
  /\ endDate' = now
  /\ pc' = "gather"
  /\ UNCHANGED <<loaded, generated, totals, result, error, reads, failedReads>>
  /\ UNCHANGED storeVars

\* getFinancialTips after generateInsights returned: filter, format, respond
FormatTips(category) ==
  /\ pc = "done"
  /\ LET actionable == SelectSeq(result.nudges, LAMBDA nudge : nudge.actionable)
         tips == IF category # NoText
                 THEN SelectSeq(actionable, LAMBDA nudge :
                        /\ categoryName(nudge) # NoText
                        /\ includes(toLowerCase(categoryName(nudge)),
                                    toLowerCase(category)))
                 ELSE actionable
         formattedTips ==
           [i \in 1..Len(tips) |->
              [id |-> tips[i].id, type |-> tips[i].type,
               description |-> tips[i].message, priority |-> tips[i].priority,
               category |-> IF categoryName(tips[i]) # NoText
                            THEN categoryName(tips[i]) ELSE <<"General">>,
               actionable |-> TRUE, metadata |-> tips[i].metadata]]
     IN result' =
          [tips |-> formattedTips,
           totalTips |-> Len(formattedTips),
           highPriorityCount |->
             Len(SelectSeq(formattedTips, LAMBDA tip : tip.priority = "high")),
           query |-> category,
           nudges |-> result.nudges,
           returned |-> TRUE]
  /\ pc' = "tips"
  /\ UNCHANGED <<startDate, endDate, loaded, generated, totals, error, reads,
                 failedReads>>
  /\ UNCHANGED storeVars

\* (spent / budget) * 100 <= k
PercentAtMost(spent, budget, k) == 100 * spent <= k * budget

\* an over-budget category scoring nothing
categoryScore_ZeroOver(spentAmount, budget) ==
  IF PercentAtMost(spentAmount, budget, 80) THEN 100
  ELSE IF PercentAtMost(spentAmount, budget, 100) THEN 60
  ELSE 0

\* the score of one category in getBudgetHealthScore
categoryScore(spentAmount, budget) ==
  IF PercentAtMost(spentAmount, budget, 80) THEN 100
  ELSE IF PercentAtMost(spentAmount, budget, 100) THEN 60
  ELSE 20

Grade(averageScore) ==
  IF averageScore >= 90 THEN "A+"
  ELSE IF averageScore >= 80 THEN "A"
  ELSE IF averageScore >= 70 THEN "B"
  ELSE IF averageScore >= 60 THEN "C"
  ELSE "D"

\* Category.find({userId, isActive: true, monthlyBudget: {$gt: 0}})
BudgetedCategories ==
  SelectSeq(ActiveCategories(DOMAIN categories), LAMBDA c : c.monthlyBudget > 0)

RECURSIVE SumScores(_)
SumScores(scores) == IF scores = <<>> THEN 0 ELSE Head(scores) + SumScores(Tail(scores))

\* the response of getBudgetHealthScore when its reads succeed
HealthResponse ==
  LET cats == BudgetedCategories
      scores == [i \in 1..Len(cats) |->
                   categoryScore(getCategorySpending(cats[i]._id, StartOfMonth(now),
                                                     EndOfMonth(now)),
                                 cats[i].monthlyBudget)]
      averageScore == RoundDiv(SumScores(scores), Len(cats))
  IN IF Len(cats) = 0
     THEN [score |-> 0, grade |-> "N/A",
           details |-> [totalCategories |-> 0, onTrackCategories |-> 0,
                        warningCategories |-> 0, overBudgetCategories |-> 0],
           returned |-> TRUE]
     ELSE [score |-> averageScore, grade |-> Grade(averageScore),
           details |->
             [totalCategories |-> Len(cats),
              onTrackCategories |-> Len(SelectSeq(scores, LAMBDA x : x = 100)),
              warningCategories |-> Len(SelectSeq(scores, LAMBDA x : x = 60)),
              overBudgetCategories |->
                Len(SelectSeq(scores, LAMBDA x : x # 100 /\ x # 60))],
           returned |-> TRUE]

getBudgetHealthScore ==
  /\ pc = "idle"
  /\ result' = HealthResponse
  /\ pc' = "health"
  /\ UNCHANGED <<startDate, endDate, loaded, generated, totals, error, reads,
                 failedReads>>
  /\ UNCHANGED storeVars

\* Category.find or an Expense.aggregate of getBudgetHealthScore throws
HealthReadFails ==
  /\ pc = "idle"
  /\ \/ error' = "Category.find"
     \/ BudgetedCategories # <<>> /\ error' = "Expense.aggregate"
  /\ pc' = "failed"
  /\ UNCHANGED <<startDate, endDate, loaded, generated, totals, result, reads,
                 failedReads>>
  /\ UNCHANGED storeVars

\* the response is sent; the next request may start
Respond ==
  /\ pc \in {"tips", "health", "failed"}
  /\ pc' = "idle"
  /\ startDate' = Null
  /\ endDate' = Null
  /\ loaded' = NoLoad
  /\ generated' = <<>>
  /\ totals' = NoTotals
  /\ result' = NoResult
  /\ error' = NoError
  /\ reads' = NoReads
  /\ failedReads' = {}
  /\ UNCHANGED storeVars

\* a transaction of the month before, inside the period before the last 30 days
OldDate == (MondayDay - DefaultWindowDays - 3) * TicksPerDay

ApiDocs == [date : ExpenseDates \cup {OldDate}, categoryId : Cats, amount : Amounts]

ApiCategoryTables ==
  {t \in [Cats -> [monthlyBudget : Budgets, isActive : BOOLEAN]] : t[1].isActive}

ApiInit ==
  /\ expenses \in StoreLists(ApiDocs, MaxApiExpenses)
  /\ categories \in ApiCategoryTables
  /\ now = MondayDay * TicksPerDay + 1
  /\ \E s \in {<<3, 10>>, <<MilestoneStreak, MilestoneStreak>>} :
       user = [streak |-> [current |-> s[1], longest |-> s[2], lastActiveDate |-> now]]
  /\ Idle

ApiNext ==
  \/ StartTips
  \/ GatherOk
  \/ GatherFail
  \/ GenerateAllNudges
  \/ BudgetReadFails
  \/ TrendReadFails
  \/ InsightsOk
  \/ InsightsFail
  \/ \E category \in TipQueries : FormatTips(category)
  \/ getBudgetHealthScore
  \/ HealthReadFails
  \/ Respond

ApiSpec == ApiInit /\ [][ApiNext]_vars

----------------------------------------------------------------------------
(* Vocabulary of the properties *)

\* the kind of a nudge: the prefix of its id
Kind(n) == n.id[1]

Unstamp(n) == [n EXCEPT !.id = SubSeq(@, 1, Len(@) - 1)]
Unstamped(nudges) == [i \in 1..Len(nudges) |-> Unstamp(nudges[i])]

\* what a caller can compare of a nudge across runs: its kind and its metadata
Content(n) == [kind |-> Kind(n), metadata |-> n.metadata]

HowMany(nudges, P(_)) == Cardinality({i \in 1..Len(nudges) : P(nudges[i])})

SameContents(a, b) ==
  /\ Len(a) = Len(b)
  /\ \A i \in 1..Len(a) :
       HowMany(a, LAMBDA n : Content(n) = Content(a[i]))
         = HowMany(b, LAMBDA n : Content(n) = Content(a[i]))

\* generateAllNudges has returned its list
NudgesBuilt == pc \in {"insights", "done"}

BudgetStepDone == NudgesBuilt /\ "getCategorySpendingThisMonth" \notin failedReads
TrendStepDone == BudgetStepDone /\ totals # NoTotals

----------------------------------------------------------------------------
\* C1: the nudge list a call returns has at most 5 entries and is ordered by
\* priority: no medium or low nudge precedes a high one, no low nudge precedes
\* a medium one.
C1_AtMostFiveSortedByPriority ==
  pc = "done" =>
    /\ Len(result.nudges) <= 5
    /\ \A i \in 1..Len(result.nudges) : \A j \in (i + 1)..Len(result.nudges) :
         /\ result.nudges[j].priority = "high" => result.nudges[i].priority = "high"
         /\ result.nudges[j].priority = "medium" => result.nudges[i].priority # "low"

\* a call that built six nudges of all three priorities and returned
C1_Witness ==
  /\ pc = "done"
  /\ Len(generated) > 5
  /\ \A p \in {"high", "medium", "low"} :
       \E i \in 1..Len(generated) : generated[i].priority = p
  /\ generated[1].priority # "high"

\* C2: no partial-result mode: a call in which a store read failed returns
\* nothing, and a returned bundle was built from every nudge the evaluators
\* emit on the stored data.
C2_NoPartialResult ==
  pc = "done" =>
    /\ failedReads = {}
    /\ Unstamped(generated)
         = AllNudges(loaded.expenses, loaded.categories, loaded.user, startDate, endDate)

\* C3: a call in which no read failed returns the same multiset of
\* (kind, metadata) pairs as the same call returns under any other values of
\* the clock read while the nudges are built.
C3_SameContentsWhateverTheClock ==
  (pc = "done" /\ failedReads = {}) =>
    \A stamps \in Clocks(Len(generated)) :
      SameContents(result.nudges,
                   Take(prioritizeNudges(Stamp(Unstamped(generated), stamps)),
                        NudgeLimit))

\* the budget nudges of one category in the list generateAllNudges returned
OverageNudges(c) ==
  HowMany(generated, LAMBDA n : Kind(n) = "budget_overage" /\ n.metadata.categoryId = c)
WarningNudges(c) ==
  HowMany(generated, LAMBDA n : Kind(n) = "budget_warning" /\ n.metadata.categoryId = c)

\* C4: once the budget detector has returned, each category with a budget > 0
\* has exactly one overage nudge (priority high) iff spent/budget*100 >= 100,
\* exactly one warning nudge (priority medium) iff 80 <= spent/budget*100 < 100,
\* never both, and a category with no budget has neither.
C4_BudgetBands ==
  BudgetStepDone =>
    /\ \A c \in DOMAIN categories :
         LET budget == categories[c].monthlyBudget
             spent == getCategorySpendingThisMonth(c)
         IN IF budget > 0
            THEN /\ OverageNudges(c) = (IF spent * 100 >= 100 * budget THEN 1 ELSE 0)
                 /\ WarningNudges(c) = (IF spent * 100 >= 80 * budget
                                           /\ spent * 100 < 100 * budget
                                        THEN 1 ELSE 0)
                 /\ OverageNudges(c) + WarningNudges(c) <= 1
            ELSE OverageNudges(c) = 0 /\ WarningNudges(c) = 0
    /\ \A i \in 1..Len(generated) :
         /\ Kind(generated[i]) = "budget_overage" => generated[i].priority = "high"
         /\ Kind(generated[i]) = "budget_warning" => generated[i].priority = "medium"

\* one category over its budget, the other warned at exactly 80 percent
C4_Witness ==
  /\ pc = "done"
  /\ \E c \in DOMAIN categories, d \in DOMAIN categories :
       /\ OverageNudges(c) = 1
       /\ WarningNudges(d) = 1
       /\ getCategorySpendingThisMonth(d) * 100 = 80 * categories[d].monthlyBudget

TrendNudges == HowMany(generated, LAMBDA n : n.type = "spending_trend")

\* C5: with previousTotal # 0 and |change%| < 15 the trend detector emits no
\* nudge, whatever label the aggregator gives the same totals.
C5_TrendDeadZone ==
  (TrendStepDone
   /\ totals.previous # 0
   /\ 100 * Abs(totals.current - totals.previous) < 15 * totals.previous)
  => TrendNudges = 0

\* a decrease strictly between -15% and -10%, labelled 'down' by the aggregator
C5_Witness ==
  /\ pc = "done"
  /\ totals # NoTotals
  /\ totals.previous > 0
  /\ 100 * (totals.current - totals.previous) > (0 - 15) * totals.previous
  /\ 100 * (totals.current - totals.previous) < (0 - 10) * totals.previous
  /\ result.insights.spendingPatterns.trend = "down"
  /\ TrendNudges = 0

WeekendNudges == HowMany(generated, LAMBDA n : Kind(n) = "weekend_spending")

WeekendAmounts ==
  SelectSeq(loaded.expenses, LAMBDA e : DayOfWeek(e.date) \in {0, 6})
WeekdayAmounts ==
  SelectSeq(loaded.expenses, LAMBDA e : DayOfWeek(e.date) \in 1..5)

\* mean(weekend)/mean(weekday) > tenths/10, both sets being non-empty
MeanRatioOver(tenths) ==
  10 * SumAmount(WeekendAmounts) * Len(WeekdayAmounts)
    > tenths * SumAmount(WeekdayAmounts) * Len(WeekendAmounts)

\* C6: the weekend detector emits exactly one nudge iff both the weekend and
\* the weekday set are non-empty and the ratio of their means is > 1.8; its
\* priority is high iff the ratio is > 2.5, medium otherwise.
C6_WeekendRatio ==
  NudgesBuilt =>
    /\ WeekendNudges = (IF Len(WeekendAmounts) > 0 /\ Len(WeekdayAmounts) > 0
                           /\ MeanRatioOver(18)
                        THEN 1 ELSE 0)
    /\ \A i \in 1..Len(generated) :
         Kind(generated[i]) = "weekend_spending" =>
           generated[i].priority = (IF MeanRatioOver(25) THEN "high" ELSE "medium")

\* a ratio in (1.8, 2.5] over a weekday set of more than one transaction
C6_Witness ==
  /\ pc = "done"
  /\ Len(WeekdayAmounts) > 1
  /\ WeekendNudges = 1
  /\ \E i \in 1..Len(generated) :
       Kind(generated[i]) = "weekend_spending" /\ generated[i].priority = "medium"

\* C7: when one of the three initial reads fails the call fails with the error
\* of that read and returns nothing, and no initial read is issued twice.
C7_GatherFailureIsFatal ==
  /\ \A r \in InitialReads : reads[r] <= 1
  /\ (failedReads \cap InitialReads # {}) =>
       /\ pc = "failed"
       /\ error \in failedReads \cap InitialReads
       /\ result = NoResult
       /\ generated = <<>>

\* the profile read failed
C7_Witness ==
  /\ pc = "failed"
  /\ error = "getUserInfo"
  /\ reads["getUserInfo"] = 1

\* C8: no step of generateInsights changes the stored transactions, the
\* categories or the user's streak record.
C8_StoreUntouched ==
  [][expenses' = expenses /\ categories' = categories /\ user' = user]_vars

\* a call has returned a bundle with nudges over a non-empty store
C8_Witness ==
  /\ pc = "done"
  /\ result.returned
  /\ Len(expenses) = MaxExpenses
  /\ Len(result.nudges) > 0

\* C9: with previousTotal > 0 and change% > 15 the trend detector emits
\* exactly one spending-trend-up nudge, priority medium, actionable, and the
\* aggregator labels the same totals 'up'.
C9_TrendUp ==
  (TrendStepDone
   /\ totals.previous > 0
   /\ 100 * (totals.current - totals.previous) > 15 * totals.previous)
  => /\ TrendNudges = 1
     /\ \A i \in 1..Len(generated) :
          generated[i].type = "spending_trend" =>
            /\ Kind(generated[i]) = "spending_increase"
            /\ generated[i].priority = "medium"
            /\ generated[i].actionable
     /\ pc = "done" => result.insights.spendingPatterns.trend = "up"

\* previousTotal 6, currentTotal 7: an increase between 15% and 20%
C9_Witness ==
  /\ pc = "done"
  /\ totals = [current |-> 7, previous |-> 6]
  /\ TrendNudges = 1
  /\ result.insights.spendingPatterns.trend = "up"

\* generateMotivationalNudges runs after the trend reads
StreakStepDone == TrendStepDone

MilestoneNudges == HowMany(generated, LAMBDA n : Kind(n) = "streak_7")
PersonalBestNudges == HowMany(generated, LAMBDA n : Kind(n) = "personal_best")

\* C10: the streak detector emits a milestone nudge iff current = 7 and a
\* personal-best nudge iff current = longest and current > 0, independently;
\* every streak nudge has priority low and is not actionable.
C10_StreakNudges ==
  StreakStepDone =>
    /\ MilestoneNudges = (IF user.streak.current = 7 THEN 1 ELSE 0)
    /\ PersonalBestNudges = (IF user.streak.current = user.streak.longest
                                /\ user.streak.current > 0
                             THEN 1 ELSE 0)
    /\ \A i \in 1..Len(generated) :
         generated[i].type = "streak_celebration" =>
           generated[i].priority = "low" /\ ~generated[i].actionable

\* current 7, longest 10: the milestone alone
C10_Witness ==
  /\ pc = "done"
  /\ user.streak.current = 7
  /\ user.streak.longest = 10
  /\ MilestoneNudges = 1
  /\ PersonalBestNudges = 0

\* q is the quotient n / d rounded to the nearest integer
Nearest(q, n, d) == 2 * Abs(q * d - n) <= d

\* C11: the overage band is decided on the unrounded percentage: a category
\* whose spend this month exceeds its budget by any amount has exactly one
\* overage nudge and no warning, one whose spend is below its budget has no
\* overage nudge however its percentage rounds; the overage nudge carries the
\* percentage rounded to one decimal and its message round(percentage - 100).
C11_OverageOnUnroundedPercentage ==
  BudgetStepDone =>
    \A c \in DOMAIN categories :
      LET budget == categories[c].monthlyBudget
          spent == getCategorySpendingThisMonth(c)
      IN budget > 0 =>
           /\ spent > budget => OverageNudges(c) = 1 /\ WarningNudges(c) = 0
           /\ spent < budget => OverageNudges(c) = 0
           /\ \A i \in 1..Len(generated) :
                (Kind(generated[i]) = "budget_overage"
                 /\ generated[i].metadata.categoryId = c)
                => /\ Nearest(generated[i].metadata.percentage, 1000 * spent, budget)
                   /\ Nearest(generated[i].message.exceededBy,
                              100 * (spent - budget), budget)

\* a spend one unit in 50000 over the budget: percentage 100.0, 0% over
C11_Witness ==
  /\ pc = "done"
  /\ getCategorySpendingThisMonth(1) = categories[1].monthlyBudget + 1
  /\ \E i \in 1..Len(result.nudges) :
       /\ Kind(result.nudges[i]) = "budget_overage"
       /\ result.nudges[i].metadata.percentage = 1000
       /\ result.nudges[i].message.exceededBy = 0
  /\ WarningNudges(1) = 0

\* the place of the nudge x in the list generateAllNudges returned
Built(x) == CHOOSE i \in 1..Len(generated) : generated[i] = x

\* C12: among the returned nudges of equal priority the one generated later
\* comes first, whatever the clock read while the nudges were built.
C12_EqualPriorityNewestFirst ==
  pc = "done" =>
    \A a \in 1..Len(result.nudges) : \A b \in (a + 1)..Len(result.nudges) :
      result.nudges[a].priority = result.nudges[b].priority
      => Built(result.nudges[a]) > Built(result.nudges[b])

Returned(x) == \E a \in 1..Len(result.nudges) : result.nudges[a] = x

\* C13: of n generated nudges min(5, n) are returned, each of them a generated
\* nudge and none twice, and no discarded nudge has a strictly higher
\* priority than a returned one.
C13_TruncationKeepsBest ==
  pc = "done" =>
    /\ Len(result.nudges) = (IF Len(generated) < 5 THEN Len(generated) ELSE 5)
    /\ \A a \in 1..Len(result.nudges) :
         HowMany(result.nudges, LAMBDA n : n = result.nudges[a])
           <= HowMany(generated, LAMBDA n : n = result.nudges[a])
    /\ \A a \in 1..Len(result.nudges) :
         \E i \in 1..Len(generated) : generated[i] = result.nudges[a]
    /\ \A i \in 1..Len(generated) : \A a \in 1..Len(result.nudges) :
         ~Returned(generated[i])
         => priorityOrder(generated[i].priority)
              >= priorityOrder(result.nudges[a].priority)

\* six nudges were generated; a low one was discarded and a low one returned
C13_Witness ==
  /\ pc = "done"
  /\ Len(generated) = 6
  /\ Len(result.nudges) = 5
  /\ \E i \in 1..Len(generated) :
       ~Returned(generated[i]) /\ generated[i].priority = "low"
  /\ result.nudges[5].priority = "low"
  /\ result.nudges[1].priority = "high"

\* C14: when no store read fails every evaluator is invoked and the list
\* handed to the prioritizer is the concatenation of their outputs, in the
\* order weekend, budget, trend, streak, category pattern, savings.
C14_EveryEvaluatorContributes ==
  (NudgesBuilt /\ failedReads = {}) =>
    /\ totals # NoTotals
    /\ Unstamped(generated)
         = detectWeekendSpending(loaded.expenses)
           \o detectBudgetOverspend(loaded.categories)
           \o TrendNudge(totals.current, totals.previous)
           \o generateMotivationalNudges(loaded.user)
           \o detectCategoryPatterns(loaded.expenses, loaded.categories)
           \o detectSavingsMilestones

\* the weekend and trend detectors emitted nothing; the budget and streak
\* nudges were handed on all the same
C14_Witness ==
  /\ pc = "done"
  /\ failedReads = {}
  /\ WeekendNudges = 0
  /\ TrendNudges = 0
  /\ \E c \in DOMAIN categories : OverageNudges(c) + WarningNudges(c) = 1
  /\ HowMany(generated, LAMBDA n : n.type = "streak_celebration") = 2

\* the calendar days an interval of instants touches
DaysCovered(from, to) == DayIndex(to) - DayIndex(from) + 1

\* the window of the call has been resolved
WindowResolved == pc \in {"gather", "nudges", "insights", "done"}

\* C15: the previous period of the trend totals ends right before the
\* analysis window starts and covers as many days as the window.
C15_PreviousPeriodSameLength ==
  WindowResolved =>
    /\ previousPeriodEnd(startDate) + 1 = startDate
    /\ DaysCovered(previousPeriodStart(startDate, endDate), previousPeriodEnd(startDate))
         = DaysCovered(startDate, endDate)

TrendNudgesOfKind(kind) ==
  HowMany(generated, LAMBDA n : n.type = "spending_trend" /\ Kind(n) = kind)

\* C16: of the changes not rejected as |change%| < 15, every change% > 15
\* yields the spending-increase nudge alone, every change% <= -15 exactly one
\* spending-decrease nudge (priority low, not actionable), a change of exactly
\* +15 no nudge, and previousTotal = 0 no nudge whatever currentTotal is.
C16_TrendBranches ==
  TrendStepDone =>
    LET change == 100 * (totals.current - totals.previous)
        limit == 15 * totals.previous
    IN /\ totals.previous = 0 => TrendNudges = 0
       /\ (totals.previous > 0 /\ change > limit)
            => TrendNudges = 1 /\ TrendNudgesOfKind("spending_increase") = 1
       /\ (totals.previous > 0 /\ change = limit) => TrendNudges = 0
       /\ (totals.previous > 0 /\ change <= 0 - limit)
            => /\ TrendNudges = 1
               /\ TrendNudgesOfKind("spending_decrease") = 1
               /\ \A i \in 1..Len(generated) :
                    generated[i].type = "spending_trend"
                    => generated[i].priority = "low" /\ ~generated[i].actionable

\* previousTotal 20000, currentTotal 23000: exactly +15%, no nudge
C16_Witness ==
  /\ pc = "done"
  /\ totals.previous = 20000
  /\ totals.current = 23000
  /\ TrendNudges = 0

MonthOf(t) == DayIndex(t) \div DaysPerMonth

\* what the store holds for a category in the calendar month of the call
MonthSpend(c) ==
  SumAmount(SelectSeq(expenses, LAMBDA e : e.categoryId = c /\ MonthOf(e.date) = MonthOf(now)))

BudgetNudgesOf(c) ==
  HowMany(generated, LAMBDA n : n.type = "budget_overage" /\ n.metadata.categoryId = c)

\* C17: the budget nudges of a call are a function of the store and of the
\* current instant alone: one nudge for each category whose spend dated in the
\* calendar month of the call is at least 80% of its budget, carrying that
\* spend and its percentage, whatever the analysis window of the call.
C17_BudgetNudgesIgnoreWindow ==
  BudgetStepDone =>
    /\ \A c \in DOMAIN categories :
         BudgetNudgesOf(c) = (IF categories[c].monthlyBudget > 0
                                 /\ 100 * MonthSpend(c) >= 80 * categories[c].monthlyBudget
                              THEN 1 ELSE 0)
    /\ \A i \in 1..Len(generated) :
         generated[i].type = "budget_overage" =>
           LET c == generated[i].metadata.categoryId
           IN /\ generated[i].metadata.spent = MonthSpend(c)
              /\ Nearest(generated[i].metadata.percentage, 1000 * MonthSpend(c),
                         categories[c].monthlyBudget)

\* a call over the window Sunday..Monday whose budget nudge counts a spend
\* of the Saturday before it
C17_Witness ==
  /\ pc = "done"
  /\ startDate = SundayDay * TicksPerDay
  /\ \E i \in 1..Len(generated) :
       /\ generated[i].type = "budget_overage"
       /\ generated[i].metadata.spent
            > getCategorySpending(generated[i].metadata.categoryId, startDate, endDate)
       /\ 100 * getCategorySpending(generated[i].metadata.categoryId, startDate, endDate)
            < 80 * generated[i].metadata.budget

\* what the store holds for a category within the window of the call
WindowSpend(c) ==
  SumAmount(SelectSeq(expenses, LAMBDA e :
                        e.categoryId = c /\ e.date >= startDate /\ e.date <= endDate))

AlertsOf(c) ==
  HowMany(result.insights.categoryAlerts, LAMBDA a : a.categoryId = c)

\* C18: categoryAlerts holds exactly one record for each category with a
\* budget > 0 whose spend within the window is at least 80% of the budget and
\* none for any other category; overBudget is true iff the percentage is >= 100.
C18_CategoryAlerts ==
  pc = "done" =>
    /\ \A c \in DOMAIN categories :
         AlertsOf(c) = (IF categories[c].monthlyBudget > 0
                           /\ 100 * WindowSpend(c) >= 80 * categories[c].monthlyBudget
                        THEN 1 ELSE 0)
    /\ \A i \in 1..Len(result.insights.categoryAlerts) :
         LET a == result.insights.categoryAlerts[i]
         IN /\ a.categoryId \in DOMAIN categories
            /\ a.overBudget
                 = (100 * WindowSpend(a.categoryId)
                      >= 100 * categories[a.categoryId].monthlyBudget)

\* one category alerted at exactly 80% of its budget, another with a budget
\* nudge for the month and no alert for the window
C18_Witness ==
  /\ pc = "done"
  /\ \E c \in DOMAIN categories, d \in DOMAIN categories :
       /\ AlertsOf(c) = 1
       /\ 100 * WindowSpend(c) = 80 * categories[c].monthlyBudget
       /\ \A i \in 1..Len(result.insights.categoryAlerts) :
            result.insights.categoryAlerts[i].categoryId = c
            => ~result.insights.categoryAlerts[i].overBudget
       /\ AlertsOf(d) = 0
       /\ BudgetNudgesOf(d) = 1

\* what the store holds within the window of the call
WindowTotal ==
  SumAmount(SelectSeq(expenses, LAMBDA e : e.date >= startDate /\ e.date <= endDate))

\* C19: spendingPatterns.trend is 'up' iff previousTotal > 0 and change% > 5,
\* 'down' iff previousTotal > 0 and change% < -5, 'stable' otherwise; with
\* previousTotal = 0 the changePercentage is 0 and the trend 'stable'.
C19_TrendLabel ==
  pc = "done" =>
    LET sp == result.insights.spendingPatterns
        change == 100 * (sp.currentPeriod - sp.previousPeriod)
        up == sp.previousPeriod > 0 /\ change > 5 * sp.previousPeriod
        down == sp.previousPeriod > 0 /\ change < (0 - 5) * sp.previousPeriod
    IN /\ sp.currentPeriod = WindowTotal
       /\ sp.trend = (IF up THEN "up" ELSE IF down THEN "down" ELSE "stable")
       /\ sp.isIncreasing = up
       /\ sp.previousPeriod = 0 => sp.changePercentage = 0 /\ sp.trend = "stable"
       /\ sp.previousPeriod > 0
            => Nearest(sp.changePercentage, 10 * change, sp.previousPeriod)

\* previousTotal 20000, currentTotal 19000: exactly -5%, labelled 'stable'
C19_Witness ==
  /\ pc = "done"
  /\ result.insights.spendingPatterns.previousPeriod = 20000
  /\ result.insights.spendingPatterns.currentPeriod = 19000
  /\ result.insights.spendingPatterns.trend = "stable"
  /\ result.insights.spendingPatterns.changePercentage = 0 - 50

\* the amounts of the loaded transactions of category c, largest first
AmountsOf(c) ==
  LET list == SelectSeq(loaded.expenses, LAMBDA e : e.categoryId._id = c)
  IN SortDescending([i \in 1..Len(list) |-> list[i].amount])

SpikeNudgesOf(c) ==
  HowMany(generated, LAMBDA n :
            /\ Kind(n) = "unusual_spike"
            /\ n.metadata.categoryId
                 \in {ObjectIdToString(c), DocumentToString([_id |-> c])})

\* C20: for each category present in the window's transactions the spike
\* nudge is emitted iff the category has at least 3 transactions and its
\* largest amount is more than 5 times the element at index floor(n/2) of its
\* amounts sorted in descending order.
C20_SpikeRule ==
  (NudgesBuilt /\ failedReads = {}) =>
    \A c \in DOMAIN categories :
      LET amounts == AmountsOf(c)
      IN SpikeNudgesOf(c)
           = (IF Len(amounts) >= 3
                 /\ amounts[1] > 5 * amounts[(Len(amounts) \div 2) + 1]
              THEN 1 ELSE 0)

SmallPurchaseNudgesOf(c) ==
  HowMany(generated, LAMBDA n :
            /\ Kind(n) = "small_purchases"
            /\ n.metadata.categoryId
                 \in {ObjectIdToString(c), DocumentToString([_id |-> c])})

SmallPurchasesOf(c) ==
  Len(SelectSeq(loaded.expenses,
                LAMBDA e : e.categoryId._id = c /\ e.amount < SmallPurchaseLimit))

\* C21: for each category present in the window's transactions, active or
\* not, exactly one frequent-small-purchases nudge is generated iff at least
\* 10 of its transactions have an amount strictly below 200 (and none
\* otherwise), whether or not the category also has a spike nudge.
C21_SmallPurchases ==
  (NudgesBuilt /\ failedReads = {}) =>
    \A c \in {loaded.expenses[i].categoryId._id : i \in 1..Len(loaded.expenses)} :
      SmallPurchaseNudgesOf(c)
        = (IF SmallPurchasesOf(c) >= SmallPurchaseCount THEN 1 ELSE 0)

\* the least whole number of days covering n ticks
CeilingDays(n) == (n + TicksPerDay - 1) \div TicksPerDay

\* C22: the remainingDays of a budget-warning nudge is the ceiling of the
\* difference in days between the current instant and the end of the current
\* calendar month, hence at least 1 at every instant strictly before the end
\* of the month, the last day of the month included.
C22_RemainingDaysCeiling ==
  BudgetStepDone =>
    \A i \in 1..Len(generated) :
      Kind(generated[i]) = "budget_warning" =>
        /\ generated[i].metadata.remainingDays = CeilingDays(EndOfMonth(now) - now)
        /\ now < EndOfMonth(now) => generated[i].metadata.remainingDays >= 1

\* C26: the previous period and the analysis window tile the timeline: every
\* transaction dated from the start of the previous period up to the end of
\* the window is counted in exactly one of previousTotal and currentTotal.
C26_PeriodsTile ==
  TrendStepDone =>
    totals.previous + totals.current
      = SumAmount(SelectSeq(expenses, LAMBDA e :
                    /\ previousPeriodStart(startDate, endDate) <= e.date
                    /\ e.date <= endDate))

\* C25: in a returned result the trend nudge and the descriptive label agree
\* in direction: a generated spending-increase nudge comes with trend 'up', a
\* generated spending-decrease nudge with trend 'down', and a 'stable' label
\* with no trend nudge at all.
C25_NudgeAndLabelAgree ==
  pc = "done" =>
    LET trend == result.insights.spendingPatterns.trend
    IN /\ TrendNudgesOfKind("spending_increase") > 0 => trend = "up"
       /\ TrendNudgesOfKind("spending_decrease") > 0 => trend = "down"
       /\ trend = "stable" => TrendNudges = 0

\* previousTotal 20000, currentTotal 17000: a decrease nudge and the label 'down'
C25_Witness ==
  /\ pc = "done"
  /\ totals = [current |-> 17000, previous |-> 20000]
  /\ TrendNudgesOfKind("spending_decrease") = 1
  /\ result.insights.spendingPatterns.trend = "down"

\* C23: after any sequence of creations and logins the stored engagement
\* record satisfies longest >= current >= 0.
C23_LongestBoundsCurrent ==
  /\ user.streak.longest >= user.streak.current
  /\ user.streak.current >= 0

\* a registered user whose logins on later days raised current and longest to 3
C23_Witness ==
  /\ ~user.isNew
  /\ user.loginCount >= 3
  /\ user.streak.current = 3
  /\ user.streak.longest = 3

\* a login on a stored user
LoginStep == ~user.isNew /\ user'.loginCount = user.loginCount + 1

\* C24: on each login the hook adds exactly 1 to current when the login falls
\* on the calendar day after the last active date, leaves current unchanged
\* on the same calendar day, and resets it to 1 when more than one calendar
\* day has passed.
C24_StreakByCalendarDay ==
  [][LoginStep =>
       LET gap == DayIndex(now) - DayIndex(user.streak.lastActiveDate)
       IN /\ gap = 1 => user'.streak.current = user.streak.current + 1
          /\ gap = 0 => user'.streak.current = user.streak.current
          /\ gap > 1 => user'.streak.current = 1]_vars

\* C30: across logins streak.longest never decreases, and after every login
\* that runs the hook streak.current is at least 1 and lastActiveDate is the
\* time of that login.
C30_LongestMonotone ==
  [][/\ user'.streak.longest >= user.streak.longest
     /\ (LoginStep /\ user.lastLogin # user'.lastLogin) =>
          /\ user'.streak.current >= 1
          /\ user'.streak.lastActiveDate = user'.lastLogin
          /\ user'.streak.lastActiveDate = now]_vars

\* a login after a break: current is back to 1 under a longer record
C30_Witness ==
  /\ ~user.isNew
  /\ user.loginCount >= 1
  /\ user.streak.current = 1
  /\ user.streak.longest > 1
  /\ user.streak.lastActiveDate = now
  /\ user.lastLogin = now

\* the nudges the budget detector gives the budgeted categories of the store
DetectorNudges == detectBudgetOverspend(getUserCategories)

\* C27: the health score and the budget detector classify the same spend of
\* a budgeted category alike: overBudgetCategories counts the categories with
\* an overage nudge, warningCategories those with a warning nudge, and
\* onTrackCategories those the detector says nothing about.
C27_HealthMatchesDetector ==
  pc = "health" =>
    LET overage == HowMany(DetectorNudges, LAMBDA n : Kind(n) = "budget_overage")
        warning == HowMany(DetectorNudges, LAMBDA n : Kind(n) = "budget_warning")
    IN /\ result.details.overBudgetCategories = overage
       /\ result.details.warningCategories = warning
       /\ result.details.onTrackCategories
            = result.details.totalCategories - overage - warning

\* C28: in a budget-health response the three counts add up to
\* totalCategories; with a budgeted category the score lies between 20 and
\* 100 and the grade is 'D' exactly when the score is below 60; with none the
\* score is 0 and the grade 'N/A'.
C28_HealthResponse ==
  pc = "health" =>
    LET d == result.details
    IN /\ d.onTrackCategories + d.warningCategories + d.overBudgetCategories
            = d.totalCategories
       /\ d.totalCategories = Len(BudgetedCategories)
       /\ d.totalCategories >= 1 =>
            /\ result.score >= 20
            /\ result.score <= 100
            /\ (result.grade = "D") <=> (result.score < 60)
       /\ d.totalCategories = 0 => result.score = 0 /\ result.grade = "N/A"

\* one category over its budget and one untouched: score 60, grade 'C'
C28_Witness ==
  /\ pc = "health"
  /\ result.details.totalCategories = 2
  /\ result.details.overBudgetCategories = 1
  /\ result.details.onTrackCategories = 1
  /\ result.score = 60
  /\ result.grade = "C"

\* the returned nudge the category filter of the request lets through
MatchesQuery(nudge, query) ==
  query = NoText
  \/ /\ categoryName(nudge) # NoText
     /\ includes(toLowerCase(categoryName(nudge)), toLowerCase(query))

\* C29: the tips of getFinancialTips are exactly the actionable nudges among
\* the at most 5 nudges generateInsights returned, restricted by the category
\* filter when one is given; totalTips <= 5, highPriorityCount <= totalTips,
\* and no tip has priority low.
C29_TipsAreActionableNudges ==
  pc = "tips" =>
    /\ Len(result.nudges) <= NudgeLimit
    /\ result.nudges = Take(prioritizeNudges(generated), NudgeLimit)
    /\ \A i \in 1..Len(result.nudges) :
         (result.nudges[i].actionable /\ MatchesQuery(result.nudges[i], result.query))
           <=> \E j \in 1..Len(result.tips) : result.tips[j].id = result.nudges[i].id
    /\ \A j \in 1..Len(result.tips) :
         /\ \E i \in 1..Len(result.nudges) : result.nudges[i].id = result.tips[j].id
         /\ \A k \in 1..Len(result.tips) :
              result.tips[k].id = result.tips[j].id => k = j
         /\ result.tips[j].priority # "low"
    /\ result.totalTips = Len(result.tips)
    /\ result.totalTips <= NudgeLimit
    /\ result.highPriorityCount
         = Cardinality({j \in 1..Len(result.tips) : result.tips[j].priority = "high"})
    /\ result.highPriorityCount <= result.totalTips

\* a request without filter: a low-priority nudge was returned by
\* generateInsights and left out of two tips, one of them of high priority
C29_Witness ==
  /\ pc = "tips"
  /\ result.query = NoText
  /\ \E i \in 1..Len(result.nudges) : result.nudges[i].priority = "low"
  /\ result.totalTips = 2
  /\ result.highPriorityCount = 1

====
